---- MODULE Spec2Model ----
(***************************************************************************)
(* Smart content fallback and delivery queue of the USFM news ingestor.    *)
(*                                                                         *)
(* The module holds these state machines over one set of variables:        *)
(*   SpecWorker / SpecOverlap : delivery_worker.py run by one worker, or   *)
(*                              by two overlapping worker processes        *)
(*   SpecWorkerFair / -Err    : one worker that keeps running; one worker  *)
(*                              with a failing store                       *)
(*   SpecDay                  : successive worker runs of one calendar day *)
(*   SpecIngest / SpecAdmit   : main.py store_posts (dedup gate, delivery  *)
(*   SpecFactory                factory, delivery insertion)               *)
(*   SpecIngestErr            : one store_posts run with a failing store   *)
(*   SpecFallback             : smart_content_manager.py (populate) and    *)
(*                              main.py process_content_with_smart_fallback*)
(*   SpecClock                : one TwitterClient object under a wall clock*)
(*   SpecSec                  : sec_content_processor.py process_s4_filings*)
(***************************************************************************)
EXTENDS Integers, Sequences, FiniteSets, TLC

(***************************************************************************)
(* Bounds of the model.                                                    *)
(***************************************************************************)
MaxDeliveries == 2      \* rows of the deliveries table in the worker specs
MaxCount == 7           \* saturation of the history counters
MaxPosts == 3           \* rows of the posts table in the ingestion spec
MaxBatch == 2           \* posts handed to one store_posts call
MaxStored == 4          \* stored fallback candidates of section ma
MaxNew == 6             \* new articles handed to one populate call
MaxHours == 3           \* hours the clock of the TwitterClient spec runs
MaxFilings == 2         \* filings handed to one process_s4_filings call

(***************************************************************************)
(* Program constants.                                                      *)
(***************************************************************************)
MaxAttempts == 5        \* delivery_worker.py: if attempts >= 5
posts_per_hour == 1     \* twitter_client.py
posts_per_day == 2      \* twitter_client.py
MonthlyLimit == 1500    \* twitter_client.py rate_limits['tweets']['remaining']

VARIABLES
    \* configuration (config.py), fixed during a behaviour
    x_enabled,          \* X_ENABLED
    x_keys,             \* X_API_KEY and ... and X_ACCESS_TOKEN_SECRET all set
    revalidate_set,     \* REVALIDATE_URL and REVALIDATE_SECRET both set
    \* persistent store
    posts,              \* table posts: sequence of rows, id = index
    deliveries,         \* table deliveries: sequence of rows, id = index
    \* ingestion runs (store_posts)
    ipc,                \* position of each run: idle, check, insert
    itodo,              \* posts of the batch still to store
    ihash,              \* content hash computed by insert_post
    made,               \* the last call of process_deliveries and its result
    ilast,              \* history: the last two calls of insert_post, each
                        \* with its post and its return value (0: None)
    \* presentation assembly (SmartContentManager)
    now,                \* the clock, in hours
    fcall,              \* the last call of a populate function
    fresult,            \* the list it returned
    smart,              \* result of process_content_with_smart_fallback
    \* delivery worker processes
    wpc,                \* position of each worker: idle, send, read, write
    wbatch,             \* rows fetched by get_queued_deliveries, still to do
    wpend,              \* outcome of the sink call and the arguments of the
                        \* pending update_delivery_status
    wread,              \* attempts value read by update_delivery_status
    wtw,                \* the worker's TwitterClient counters
    \* history (not program state)
    passes,             \* per delivery: process_delivery calls on the row
                        \* (web or x); kept while storeErr is FALSE
    hist,               \* per delivery: none, blocked, failed, mixed
    storeErr,           \* some store call of a worker has failed
    tweets,             \* tweets the endpoint has accepted (answer 201)
    \* one TwitterClient object under a wall clock
    wallclock,          \* datetime.now(), in minutes
    client,             \* its counters, hour_start, day_start, last_post_time
    lastGap,            \* history: minutes between the last two tweets the
                        \* endpoint accepted from this client
    \* SEC filing processor (process_s4_filings)
    s4                  \* filings still to process, the filings returned,
                        \* and the last filing with its outcome

workerVars == <<wpc, wbatch, wpend, wread, wtw>>
ingestVars == <<posts, ipc, itodo, ihash, made, ilast>>
fallbackVars == <<now, fcall, fresult, smart>>
histVars == <<passes, hist, storeErr, tweets>>
configVars == <<x_enabled, x_keys, revalidate_set>>
clientVars == <<wallclock, client, lastGap>>
secVars == <<s4>>

Workers == {"w1", "w2"}

Ingestors == {"i1", "i2"}

Min(a, b) == IF a < b THEN a ELSE b

Sat(n) == Min(n + 1, MaxCount)

(***************************************************************************)
(* Payloads.  A payload is a JSON object; an absent key reads as the       *)
(* default of payload.get (no paths, empty text).  A text is kept as its   *)
(* length and the list of its components.                                  *)
(***************************************************************************)
NoText == [len |-> 0, parts |-> <<>>, cut |-> 0]

SectionPath(section_slug) == <<"/section/", section_slug>>

WebPayload(paths) ==
    [action |-> "revalidate", paths |-> paths, text |-> NoText, status |-> ""]

XPayload(text, status) ==
    [action |-> "", paths |-> <<>>, text |-> text, status |-> status]

SomeText == [len |-> 30, parts |-> <<"title", "site_url">>, cut |-> 0]

Row(post_id, channel, payload, status) ==
    [post_id |-> post_id, channel |-> channel, payload |-> payload,
     status |-> status, attempts |-> 0, last_error |-> ""]

\* rows the deliveries table can hold when a worker starts
RowTemplates ==
    { Row(1, "web", WebPayload(<<"/", SectionPath("ma")>>), "queued"),
      Row(1, "web", WebPayload(<<>>), "queued"),
      Row(1, "x", XPayload(SomeText, "queued"), "queued"),
      Row(1, "x", XPayload(NoText, "queued"), "queued"),
      Row(1, "x", XPayload(SomeText, "held"), "held"),
      Row(1, "email", XPayload(SomeText, ""), "queued") }

(***************************************************************************)
(* TwitterClient                                                           *)
(***************************************************************************)
NewTwitterClient ==
    [posts_this_hour |-> 0, posts_today |-> 0, remaining |-> MonthlyLimit]

\* the counters after the two resets at the top of check_rate_limits
RateReset(tw, newDay, newHour) ==
    [tw EXCEPT !.posts_today = IF newDay THEN 0 ELSE @,
               !.posts_this_hour = IF newHour THEN 0 ELSE @]

\* the daily and hourly checks of check_rate_limits
BudgetOk(tw) ==
    IF tw.posts_today >= posts_per_day THEN FALSE
    ELSE IF tw.posts_this_hour >= posts_per_hour THEN FALSE
    ELSE TRUE

\* check_rate_limits on the counters after the resets; beforeReset is
\* now < reset_time
RateOk(tw, beforeReset) ==
    IF ~BudgetOk(tw) THEN FALSE
    ELSE IF tw.remaining <= 0 /\ beforeReset THEN FALSE
    ELSE TRUE

\* answers of the tweets endpoint: status code (0: the request raised) and
\* the x-rate-limit-remaining header (-1: header absent)
TweetCodes == {201, 429, 500, 0}
RemainingHeaders == {-1, 0, 1}

\* create_tweet: ok (the result is not None), the counters afterwards, sent
\* (a request went to the endpoint), blocked (refused by the daily or hourly
\* budget)
CreateTweet(tw, newDay, newHour, beforeReset, code, hdr) ==
    LET t1 == RateReset(tw, newDay, newHour) IN
    IF ~RateOk(t1, beforeReset) THEN
        [ok |-> FALSE, tw |-> t1, sent |-> FALSE, blocked |-> ~BudgetOk(t1)]
    ELSE IF code = 0 THEN
        [ok |-> FALSE, tw |-> t1, sent |-> TRUE, blocked |-> FALSE]
    ELSE
        LET t2 == IF hdr >= 0 THEN [t1 EXCEPT !.remaining = hdr] ELSE t1 IN
        IF code = 201 THEN
            [ok |-> TRUE,
             tw |-> [t2 EXCEPT !.posts_this_hour = @ + 1, !.posts_today = @ + 1],
             sent |-> TRUE, blocked |-> FALSE]
        ELSE
            [ok |-> FALSE, tw |-> t2, sent |-> TRUE, blocked |-> FALSE]

(***************************************************************************)
(* DeliveryManager sinks                                                   *)
(***************************************************************************)
\* answers of the revalidation endpoint (0: the request raised)
WebCodes == {200, 500, 0}

\* send_web_revalidation
SendWebRevalidation(code) ==
    IF ~revalidate_set THEN [ok |-> FALSE, sent |-> FALSE]
    ELSE [ok |-> code = 200, sent |-> TRUE]

\* send_x_post
SendXPost(tw, newDay, newHour, beforeReset, code, hdr) ==
    IF ~x_enabled \/ ~x_keys THEN
        [ok |-> FALSE, tw |-> tw, sent |-> FALSE, blocked |-> FALSE]
    ELSE CreateTweet(tw, newDay, newHour, beforeReset, code, hdr)

(***************************************************************************)
(* DeliveryWorker                                                          *)
(***************************************************************************)
\* process_web_delivery
ProcessWebDelivery(d, tw, code) ==
    IF d.payload.paths = <<>> THEN
        [ok |-> FALSE, tw |-> tw, sent |-> FALSE, blocked |-> FALSE]
    ELSE LET r == SendWebRevalidation(code) IN
        [ok |-> r.ok, tw |-> tw, sent |-> r.sent, blocked |-> FALSE]

\* process_x_delivery
ProcessXDelivery(d, tw, newDay, newHour, beforeReset, code, hdr) ==
    IF d.payload.text.len = 0 THEN
        [ok |-> FALSE, tw |-> tw, sent |-> FALSE, blocked |-> FALSE]
    ELSE SendXPost(tw, newDay, newHour, beforeReset, code, hdr)

\* a retry decision that never gives up
RetryDecision_NeverFail(ok, attempts) ==
    IF ok THEN [status |-> "sent", err |-> ""]
    ELSE [status |-> "queued", err |-> "Retry scheduled"]

\* the retry decision of process_delivery: status and error message handed
\* to update_delivery_status; attempts is the value in the fetched row
RetryDecision(ok, attempts) ==
    IF ok THEN [status |-> "sent", err |-> ""]
    ELSE IF attempts >= MaxAttempts
         THEN [status |-> "failed", err |-> "Max retries exceeded"]
         ELSE [status |-> "queued", err |-> "Retry scheduled"]

\* what process_delivery holds when it calls update_delivery_status
Pending(r, attempts) ==
    LET u == RetryDecision(r.ok, attempts) IN
    [status |-> u.status, err |-> u.err, sent |-> r.sent, blocked |-> r.blocked]

\* get_queued_deliveries: the rows with status queued, with their ids
RECURSIVE QueuedFrom(_, _)
QueuedFrom(tbl, i) ==
    IF i > Len(tbl) THEN <<>>
    ELSE IF tbl[i].status = "queued"
         THEN <<[id |-> i, channel |-> tbl[i].channel,
                 payload |-> tbl[i].payload,
                 attempts |-> tbl[i].attempts]>> \o QueuedFrom(tbl, i + 1)
         ELSE QueuedFrom(tbl, i + 1)

\* get_queued_deliveries without its status filter
GetQueuedDeliveries_All(tbl, fetchOk) ==
    IF fetchOk
    THEN [i \in DOMAIN tbl |-> [id |-> i, channel |-> tbl[i].channel,
                                payload |-> tbl[i].payload,
                                attempts |-> tbl[i].attempts]]
    ELSE <<>>

GetQueuedDeliveries(tbl, fetchOk) ==
    IF fetchOk THEN QueuedFrom(tbl, 1) ELSE <<>>

NoPend == [status |-> "", err |-> "", sent |-> FALSE, blocked |-> FALSE]

\* history of the outcomes of a delivery's passes
NextHist(h, r) ==
    IF r.ok THEN "mixed"
    ELSE IF r.blocked THEN (IF h \in {"none", "blocked"} THEN "blocked" ELSE "mixed")
    ELSE IF h \in {"none", "failed"} THEN "failed" ELSE "mixed"

\* DeliveryWorker() followed by the fetch of process_all_deliveries
NoPasses == [i \in DOMAIN deliveries |-> 0]

StartRun(w, fetchOk) ==
    /\ wpc[w] = "idle"
    /\ LET batch == GetQueuedDeliveries(deliveries, fetchOk) IN
       /\ wbatch' = [wbatch EXCEPT ![w] = batch]
       /\ wpc' = [wpc EXCEPT ![w] = IF batch = <<>> THEN "idle" ELSE "send"]
    /\ wtw' = [wtw EXCEPT ![w] = NewTwitterClient]
    /\ storeErr' = (storeErr \/ ~fetchOk)
    /\ passes' = IF fetchOk THEN passes ELSE NoPasses
    /\ UNCHANGED <<deliveries, wpend, wread, hist, tweets>>
    /\ UNCHANGED <<configVars, clientVars, secVars, ingestVars, fallbackVars>>

\* a loop that stays on a row it has just reset to queued
Advance_Requeue(w) ==
    /\ wbatch' = [wbatch EXCEPT ![w] =
                     IF wpend[w].status = "queued" THEN @ ELSE Tail(@)]
    /\ wpc' = [wpc EXCEPT ![w] =
                  IF wpend[w].status = "queued" THEN "send"
                  ELSE IF Tail(wbatch[w]) = <<>> THEN "idle" ELSE "send"]
    /\ wpend' = [wpend EXCEPT ![w] = NoPend]
    /\ wread' = [wread EXCEPT ![w] = 0]
    /\ wtw' = [wtw EXCEPT ![w] = IF Tail(wbatch[w]) = <<>>
                                 THEN NewTwitterClient ELSE @]

\* the loop of process_all_deliveries moves to the next fetched row; after
\* the last one the process exits
Advance(w) ==
    /\ wbatch' = [wbatch EXCEPT ![w] = Tail(@)]
    /\ wpc' = [wpc EXCEPT ![w] = IF Tail(wbatch[w]) = <<>> THEN "idle" ELSE "send"]
    /\ wpend' = [wpend EXCEPT ![w] = NoPend]
    /\ wread' = [wread EXCEPT ![w] = 0]
    /\ wtw' = [wtw EXCEPT ![w] = IF Tail(wbatch[w]) = <<>>
                                 THEN NewTwitterClient ELSE @]

\* process_delivery that counts an unknown channel as a failed send
Send_UnknownFails(w, inp) ==
    /\ wpc[w] = "send"
    /\ LET d == Head(wbatch[w])
           r == IF d.channel = "web"
                THEN ProcessWebDelivery(d, wtw[w], inp.code)
                ELSE IF d.channel = "x"
                THEN ProcessXDelivery(d, wtw[w], inp.newDay, inp.newHour,
                                      inp.beforeReset, inp.code, inp.hdr)
                ELSE [ok |-> FALSE, tw |-> wtw[w], sent |-> FALSE,
                      blocked |-> FALSE]
       IN /\ wpend' = [wpend EXCEPT ![w] = Pending(r, d.attempts)]
          /\ wpc' = [wpc EXCEPT ![w] = "read"]
          /\ wtw' = [wtw EXCEPT ![w] = r.tw]
          /\ passes' = [passes EXCEPT ![d.id] = IF storeErr THEN @ ELSE Sat(@)]
          /\ hist' = [hist EXCEPT ![d.id] = NextHist(@, r)]
          /\ tweets' = IF d.channel = "x" /\ r.ok THEN Sat(tweets) ELSE tweets
          /\ UNCHANGED <<wbatch, wread>>
    /\ UNCHANGED <<deliveries, storeErr>>
    /\ UNCHANGED <<configVars, clientVars, secVars, ingestVars, fallbackVars>>

\* process_delivery up to its call of update_delivery_status
Send(w, inp) ==
    /\ wpc[w] = "send"
    /\ LET d == Head(wbatch[w]) IN
       IF d.channel \notin {"web", "x"} THEN
           /\ Advance(w)
           /\ UNCHANGED <<passes, hist, tweets>>
       ELSE
           LET r == IF d.channel = "web"
                    THEN ProcessWebDelivery(d, wtw[w], inp.code)
                    ELSE ProcessXDelivery(d, wtw[w], inp.newDay, inp.newHour,
                                          inp.beforeReset, inp.code, inp.hdr) IN
           /\ wpend' = [wpend EXCEPT ![w] = Pending(r, d.attempts)]
           /\ wpc' = [wpc EXCEPT ![w] = "read"]
           /\ wtw' = [wtw EXCEPT ![w] = r.tw]
           /\ passes' = [passes EXCEPT ![d.id] = IF storeErr THEN @ ELSE Sat(@)]
           /\ hist' = [hist EXCEPT ![d.id] = NextHist(@, r)]
           /\ tweets' = IF d.channel = "x" /\ r.ok THEN Sat(tweets) ELSE tweets
           /\ UNCHANGED <<wbatch, wread>>
    /\ UNCHANGED <<deliveries, storeErr>>
    /\ UNCHANGED <<configVars, clientVars, secVars, ingestVars, fallbackVars>>

\* update_delivery_status: the select of the row's attempts
ReadAttempts(w, readOk) ==
    /\ wpc[w] = "read"
    /\ LET d == Head(wbatch[w]) IN
       IF readOk THEN
           /\ wread' = [wread EXCEPT ![w] = deliveries[d.id].attempts]
           /\ wpc' = [wpc EXCEPT ![w] = "write"]
           /\ UNCHANGED <<wbatch, wpend, wtw, storeErr, passes>>
       ELSE
           /\ Advance(w)
           /\ storeErr' = TRUE
           /\ passes' = NoPasses
    /\ UNCHANGED <<deliveries, hist, tweets>>
    /\ UNCHANGED <<configVars, clientVars, secVars, ingestVars, fallbackVars>>

\* an update whose store error ends the run
WriteUpdate_Raises(w, writeOk) ==
    /\ wpc[w] = "write"
    /\ LET d == Head(wbatch[w]) IN
       IF writeOk THEN
           /\ deliveries' = [deliveries EXCEPT ![d.id] =
                 [@ EXCEPT !.status = wpend[w].status,
                           !.attempts = wread[w] + 1,
                           !.last_error = IF wpend[w].err # ""
                                          THEN wpend[w].err ELSE @]]
           /\ UNCHANGED <<storeErr, passes>>
           /\ Advance(w)
       ELSE
           /\ UNCHANGED deliveries
           /\ storeErr' = TRUE
           /\ passes' = NoPasses
           /\ wbatch' = [wbatch EXCEPT ![w] = <<>>]
           /\ wpc' = [wpc EXCEPT ![w] = "idle"]
           /\ wpend' = [wpend EXCEPT ![w] = NoPend]
           /\ wread' = [wread EXCEPT ![w] = 0]
           /\ wtw' = [wtw EXCEPT ![w] = NewTwitterClient]
    /\ UNCHANGED <<hist, tweets>>
    /\ UNCHANGED <<configVars, clientVars, secVars, ingestVars, fallbackVars>>

\* update_delivery_status: the update of the row
WriteUpdate(w, writeOk) ==
    /\ wpc[w] = "write"
    /\ LET d == Head(wbatch[w]) IN
       IF writeOk THEN
           /\ deliveries' = [deliveries EXCEPT ![d.id] =
                 [@ EXCEPT !.status = wpend[w].status,
                           !.attempts = wread[w] + 1,
                           !.last_error = IF wpend[w].err # ""
                                          THEN wpend[w].err ELSE @]]
           /\ UNCHANGED <<storeErr, passes>>
       ELSE
           /\ UNCHANGED deliveries
           /\ storeErr' = TRUE
           /\ passes' = NoPasses
    /\ Advance(w)
    /\ UNCHANGED <<hist, tweets>>
    /\ UNCHANGED <<configVars, clientVars, secVars, ingestVars, fallbackVars>>

(***************************************************************************)
(* Posts.  A text is kept twice: as a short character sequence, which      *)
(* decides equality and the content hash, and as a length, which decides   *)
(* the formatting of the social post.                                      *)
(***************************************************************************)
\* origin types set by the processors of the repository; "" is an absent key
OriginTypes == {"RSS", "CRYPTO", "SEC", "USGOV", "MEDIA", "SCRAPED", "PEWIRE", ""}

\* str.upper on the origin types
Upper(o) ==
    CASE o \in {"scraped", "Scraped"} -> "SCRAPED"
      [] o \in {"pewire", "PeWire"} -> "PEWIRE"
      [] o = "rss" -> "RSS"
      [] OTHER -> o

LowerChar(c) ==
    CASE c = "U" -> "u"
      [] c = "V" -> "v"
      [] c = "T" -> "t"
      [] OTHER -> c

\* str.lower
Lower(str) == [i \in 1..Len(str) |-> LowerChar(str[i])]

IsSpace(c) == c = " "

\* str.strip
RECURSIVE LStrip(_)
LStrip(str) ==
    IF str # <<>> /\ IsSpace(Head(str)) THEN LStrip(Tail(str)) ELSE str

RECURSIVE RStrip(_)
RStrip(str) ==
    IF str # <<>> /\ IsSpace(str[Len(str)])
    THEN RStrip(SubSeq(str, 1, Len(str) - 1)) ELSE str

Strip(str) == RStrip(LStrip(str))

\* generate_content_hash; the digest is taken to be injective, so the hash
\* is the digested string itself
GenerateContentHash(source_url, title) == Strip(Lower(source_url \o title))

Post(source_url, title, origin_type, slug_len) ==
    [source_url |-> source_url, title |-> title, section_slug |-> "ma",
     origin_type |-> origin_type, slug_len |-> slug_len,
     title_len |-> 40, summary_len |-> 60, url_len |-> 30]

\* candidate posts of the ingestion spec: the second differs from the first
\* in letter case and trailing whitespace only
IngestPosts ==
    { Post(<<"u">>, <<"t">>, "RSS", 0),
      Post(<<"U">>, <<"T", " ">>, "SCRAPED", 20),
      Post(<<"u", " ">>, <<"t">>, "PEWIRE", 20),
      Post(<<"v">>, <<"t">>, "SCRAPED", 0) }

\* candidate posts of the factory spec
FactoryPosts ==
    [source_url : {<<"u">>}, title : {<<"t">>}, section_slug : {"ma", "cap"},
     origin_type : OriginTypes, slug_len : {0, 20, 250},
     title_len : {40, 200, 204, 205, 252, 253, 260, 300},
     summary_len : {0, 60, 100},
     url_len : {30}]

(***************************************************************************)
(* DeliveryManager: the delivery factory                                   *)
(***************************************************************************)
HashtagsLen == 48       \* len("#specialsituations #MA #PE #news #viral #finance")
SiteUrlLen == 39        \* len("https://www.usfinancemoves.com/article/")
TweetLimit == 280
UrlRoom == 25

\* create_web_delivery
CreateWebDelivery(post) == WebPayload(<<"/", SectionPath(post.section_slug)>>)

\* _should_tweet_post without the article_slug test of the PEWIRE branch
ShouldTweetPost_NoSlugTest(post) ==
    IF ~x_enabled THEN FALSE
    ELSE IF Upper(post.origin_type) = "SCRAPED" /\ post.slug_len > 0 THEN TRUE
    ELSE IF Upper(post.origin_type) = "PEWIRE" THEN TRUE
    ELSE FALSE

\* _should_tweet_post
ShouldTweetPost(post) ==
    IF ~x_enabled THEN FALSE
    ELSE IF Upper(post.origin_type) = "SCRAPED" /\ post.slug_len > 0 THEN TRUE
    ELSE IF Upper(post.origin_type) = "PEWIRE" /\ post.slug_len > 0 THEN TRUE
    ELSE FALSE

\* the text of create_x_delivery without its final cut to 280 characters
TweetText_NoCut(post) ==
    LET url == IF post.slug_len > 0
               THEN [len |-> SiteUrlLen + post.slug_len, part |-> "site_url"]
               ELSE [len |-> post.url_len, part |-> "source_url"]
        t0 == [len |-> 2 + post.title_len, parts |-> <<"title">>]
        t1 == IF post.summary_len > 0 /\ post.summary_len < 80
              THEN [len |-> t0.len + 2 + post.summary_len,
                    parts |-> Append(t0.parts, "summary")]
              ELSE t0
        t2 == IF t1.len + HashtagsLen + UrlRoom < TweetLimit
              THEN [len |-> t1.len + 2 + HashtagsLen,
                    parts |-> Append(t1.parts, "hashtags")]
              ELSE t1
        t3 == IF t2.len + UrlRoom < TweetLimit
              THEN [len |-> t2.len + 2 + url.len,
                    parts |-> Append(t2.parts, url.part)]
              ELSE t2
    IN [len |-> t3.len, parts |-> t3.parts, cut |-> 0]

\* the text built by create_x_delivery: its length, its components in order,
\* and the number of characters cut off its end
TweetText(post) ==
    LET url == IF post.slug_len > 0
               THEN [len |-> SiteUrlLen + post.slug_len, part |-> "site_url"]
               ELSE [len |-> post.url_len, part |-> "source_url"]
        t0 == [len |-> 2 + post.title_len, parts |-> <<"title">>]
        t1 == IF post.summary_len > 0 /\ post.summary_len < 80
              THEN [len |-> t0.len + 2 + post.summary_len,
                    parts |-> Append(t0.parts, "summary")]
              ELSE t0
        t2 == IF t1.len + HashtagsLen + UrlRoom < TweetLimit
              THEN [len |-> t1.len + 2 + HashtagsLen,
                    parts |-> Append(t1.parts, "hashtags")]
              ELSE t1
        t3 == IF t2.len + UrlRoom < TweetLimit
              THEN [len |-> t2.len + 2 + url.len,
                    parts |-> Append(t2.parts, url.part)]
              ELSE t2
    IN IF t3.len > TweetLimit
       THEN [len |-> (TweetLimit - 3) + 3, parts |-> t3.parts,
             cut |-> t3.len - (TweetLimit - 3)]
       ELSE [len |-> t3.len, parts |-> t3.parts, cut |-> 0]

None == [none |-> TRUE]

\* create_x_delivery
CreateXDelivery(post) ==
    IF ~ShouldTweetPost(post) THEN None
    ELSE XPayload(TweetText(post), IF ~x_enabled THEN "held" ELSE "queued")

\* process_deliveries that lists the web delivery twice
ProcessDeliveries_WebTwice(post) ==
    LET web == [channel |-> "web", payload |-> CreateWebDelivery(post)]
        x_payload == CreateXDelivery(post)
    IN IF x_payload # None
       THEN <<web, web, [channel |-> "x", payload |-> x_payload]>>
       ELSE <<web, web>>

\* process_deliveries
ProcessDeliveries(post) ==
    LET web == <<[channel |-> "web", payload |-> CreateWebDelivery(post)]>>
        x_payload == CreateXDelivery(post)
    IN IF x_payload # None
       THEN Append(web, [channel |-> "x", payload |-> x_payload])
       ELSE web

(***************************************************************************)
(* DatabaseManager                                                         *)
(***************************************************************************)
\* post_exists that finds no row
PostExists_Never(content_hash, ok) == FALSE

\* post_exists; ok is FALSE when the query raises
PostExists(content_hash, ok) ==
    IF ok THEN \E i \in DOMAIN posts : posts[i].content_hash = content_hash
    ELSE FALSE

\* the row insert_post inserts; the processors set status published and the
\* store stamps created_at
PostRow(post, content_hash, status, created_at) ==
    [source_url |-> post.source_url, title |-> post.title,
     section_slug |-> post.section_slug, origin_type |-> post.origin_type,
     slug_len |-> post.slug_len, title_len |-> post.title_len,
     summary_len |-> post.summary_len, url_len |-> post.url_len,
     content_hash |-> content_hash, status |-> status,
     created_at |-> created_at]

\* the row insert_delivery inserts
DeliveryRow(post_id, channel, payload) ==
    [post_id |-> post_id, channel |-> channel, payload |-> payload,
     status |-> "queued", attempts |-> 0, last_error |-> ""]

\* the deliveries table after insert_delivery for each element of ds;
\* oks[k] is FALSE when the k-th insert raises
RECURSIVE InsertDeliveries(_, _, _, _)
InsertDeliveries(tbl, post_id, ds, oks) ==
    IF ds = <<>> THEN tbl
    ELSE LET d == Head(ds)
             t == IF Head(oks)
                  THEN Append(tbl, DeliveryRow(post_id, d.channel, d.payload))
                  ELSE tbl
         IN InsertDeliveries(t, post_id, Tail(ds), Tail(oks))

(***************************************************************************)
(* NewsIngestor.store_posts                                                *)
(***************************************************************************)
SeqsUpTo(S, n) == UNION { [1..k -> S] : k \in 1..n }

RECURSIVE SumLen(_, _)
SumLen(f, D) ==
    IF D = {} THEN 0
    ELSE LET r == CHOOSE x \in D : TRUE IN Len(f[r]) + SumLen(f, D \ {r})

\* the history of insert_post after a call c
Push(log, c) == IF Len(log) < 2 THEN Append(log, c) ELSE <<log[2], c>>

\* store_posts is called with a list of posts
StartIngest(r, batch) ==
    /\ ipc[r] = "idle"
    /\ Len(posts) + Len(batch) + SumLen(itodo, Ingestors) <= MaxPosts
    /\ itodo' = [itodo EXCEPT ![r] = batch]
    /\ ipc' = [ipc EXCEPT ![r] = "check"]
    /\ UNCHANGED <<posts, deliveries, ihash, made, ilast>>
    /\ UNCHANGED <<configVars, clientVars, secVars, workerVars, histVars, fallbackVars>>

\* a loop of store_posts that gives the batch up after a post
NextPost_StopBatch(r) ==
    /\ itodo' = [itodo EXCEPT ![r] = <<>>]
    /\ ipc' = [ipc EXCEPT ![r] = "idle"]
    /\ ihash' = [ihash EXCEPT ![r] = <<>>]

\* the loop of store_posts moves to the next post
NextPost(r) ==
    /\ itodo' = [itodo EXCEPT ![r] = Tail(@)]
    /\ ipc' = [ipc EXCEPT ![r] = IF Tail(itodo[r]) = <<>> THEN "idle" ELSE "check"]
    /\ ihash' = [ihash EXCEPT ![r] = <<>>]

\* insert_post up to its insert: the hash and the existence check
CheckExists(r, queryOk) ==
    /\ ipc[r] = "check"
    /\ LET post == Head(itodo[r])
           content_hash == GenerateContentHash(post.source_url, post.title)
       IN IF PostExists(content_hash, queryOk)
          THEN /\ NextPost(r)
               /\ ilast' = Push(ilast, [post |-> post, ret |-> 0])
          ELSE /\ ihash' = [ihash EXCEPT ![r] = content_hash]
               /\ ipc' = [ipc EXCEPT ![r] = "insert"]
               /\ UNCHANGED <<itodo, ilast>>
    /\ UNCHANGED <<posts, deliveries, made>>
    /\ UNCHANGED <<configVars, clientVars, secVars, workerVars, histVars, fallbackVars>>

\* the insert of insert_post and, when it returns a post id, the fan-out:
\* process_deliveries and insert_delivery for each element of its result
InsertPost(r, insertOk, oks) ==
    /\ ipc[r] = "insert"
    /\ LET post == Head(itodo[r]) IN
       IF insertOk THEN
           LET post_id == Len(posts) + 1
               ds == ProcessDeliveries(post)
           IN /\ posts' = Append(posts, PostRow(post, ihash[r], "published", now))
              /\ made' = [called |-> TRUE, post |-> post, result |-> ds]
              /\ deliveries' = InsertDeliveries(deliveries, post_id, ds, oks)
              /\ ilast' = Push(ilast, [post |-> post, ret |-> post_id])
       ELSE /\ UNCHANGED <<posts, deliveries, made>>
            /\ ilast' = Push(ilast, [post |-> post, ret |-> 0])
    /\ NextPost(r)
    /\ UNCHANGED <<configVars, clientVars, secVars, workerVars, histVars, fallbackVars>>


(***************************************************************************)
(* SmartContentManager                                                     *)
(***************************************************************************)
section_thresholds ==
    [ma |-> 3, lbo |-> 3, reg |-> 3, cap |-> 5, rumor |-> 2, all |-> 30]

DefaultThreshold == 3           \* section_thresholds.get(section_slug, 3)
fallback_retention_days == 7
ExclusionHours == 2             \* timedelta(hours=2)
HoursPerDay == 24
SectionLimit == 10              \* .limit(10)

\* section_thresholds.get(section_slug, 3)
Threshold(section_slug) ==
    IF section_slug \in DOMAIN section_thresholds
    THEN section_thresholds[section_slug] ELSE DefaultThreshold

\* the filters both fallback queries share: status published, created_at
\* below now - 2 hours and at or above now - 7 days
InFallbackWindow(row, clock) ==
    /\ row.status = "published"
    /\ row.created_at < clock - ExclusionHours
    /\ row.created_at >= clock - fallback_retention_days * HoursPerDay

\* order('created_at', desc=True); rows of equal time come in id order
RECURSIVE OrderDesc(_, _)
OrderDesc(tbl, ids) ==
    IF ids = {} THEN <<>>
    ELSE LET first == CHOOSE i \in ids : \A j \in ids :
                          \/ tbl[i].created_at > tbl[j].created_at
                          \/ tbl[i].created_at = tbl[j].created_at /\ i <= j
         IN <<first>> \o OrderDesc(tbl, ids \ {first})

\* list[:n] and .limit(n)
Take(list, n) == SubSeq(list, 1, Min(n, Len(list)))

\* a stored post as an element of a result list
Article(tbl, i) ==
    [id |-> i, section_slug |-> tbl[i].section_slug,
     created_at |-> tbl[i].created_at, fresh |-> FALSE]

Articles(tbl, ids) == [k \in DOMAIN ids |-> Article(tbl, ids[k])]

\* _get_existing_section_articles that answers from a stale result when
\* the query raises
GetExistingSectionArticles_Stale(section_slug, ok) ==
    LET ids == { i \in DOMAIN posts :
                    /\ posts[i].section_slug = section_slug
                    /\ InFallbackWindow(posts[i], now) }
    IN Articles(posts, Take(OrderDesc(posts, ids), SectionLimit))

\* _get_existing_section_articles; ok is FALSE when the query raises
GetExistingSectionArticles(section_slug, ok) ==
    IF ~ok THEN <<>>
    ELSE LET ids == { i \in DOMAIN posts :
                        /\ posts[i].section_slug = section_slug
                        /\ InFallbackWindow(posts[i], now) }
         IN Articles(posts, Take(OrderDesc(posts, ids), SectionLimit))

\* _get_recent_fallback_articles that takes the oldest rows of the window
GetRecentFallbackArticles_Oldest(count, ok) ==
    IF ~ok THEN <<>>
    ELSE LET ids == { i \in DOMAIN posts : InFallbackWindow(posts[i], now) }
             all == OrderDesc(posts, ids)
         IN Articles(posts, SubSeq(all, Len(all) - Min(count, Len(all)) + 1,
                                   Len(all)))

\* _get_recent_fallback_articles; ok is FALSE when the query raises
GetRecentFallbackArticles(count, ok) ==
    IF ~ok THEN <<>>
    ELSE LET ids == { i \in DOMAIN posts : InFallbackWindow(posts[i], now) }
         IN Articles(posts, Take(OrderDesc(posts, ids), count))

\* get_smart_content_for_section whose mix does not slice the fallbacks
GetSmartContentForSection_NoSlice(section_slug, new_articles, ok) ==
    LET existing_articles == GetExistingSectionArticles(section_slug, ok)
        target_count == Threshold(section_slug)
    IN IF Len(new_articles) >= target_count
       THEN Take(new_articles, target_count)
       ELSE IF new_articles # <<>>
       THEN new_articles \o existing_articles
       ELSE IF existing_articles # <<>>
       THEN Take(existing_articles, target_count)
       ELSE <<>>

\* get_smart_content_for_section
GetSmartContentForSection(section_slug, new_articles, ok) ==
    LET existing_articles == GetExistingSectionArticles(section_slug, ok)
        target_count == Threshold(section_slug)
    IN IF Len(new_articles) >= target_count
       THEN Take(new_articles, target_count)
       ELSE IF new_articles # <<>>
       THEN new_articles \o Take(existing_articles,
                                 target_count - Len(new_articles))
       ELSE IF existing_articles # <<>>
       THEN Take(existing_articles, target_count)
       ELSE <<>>

\* get_smart_homepage_content that puts the fallbacks first
GetSmartHomepageContent_FallbackFirst(new_articles, ok) ==
    LET target_count == section_thresholds["all"] IN
    IF Len(new_articles) >= target_count
    THEN Take(new_articles, target_count)
    ELSE GetRecentFallbackArticles(target_count - Len(new_articles), ok)
         \o new_articles

\* get_smart_homepage_content
GetSmartHomepageContent(new_articles, ok) ==
    LET target_count == section_thresholds["all"] IN
    IF Len(new_articles) >= target_count
    THEN Take(new_articles, target_count)
    ELSE new_articles \o
         GetRecentFallbackArticles(target_count - Len(new_articles), ok)

(***************************************************************************)
(* NewsIngestor.process_content_with_smart_fallback                        *)
(***************************************************************************)
\* the keys of posts_by_section, in the order of their first post
RECURSIVE SectionKeys(_, _)
SectionKeys(all_posts, seen) ==
    IF all_posts = <<>> THEN <<>>
    ELSE LET sec == Head(all_posts).section_slug IN
         IF sec \in seen THEN SectionKeys(Tail(all_posts), seen)
         ELSE <<sec>> \o SectionKeys(Tail(all_posts), seen \cup {sec})

\* posts_by_section[section]
RECURSIVE PostsOfSection(_, _)
PostsOfSection(all_posts, sec) ==
    IF all_posts = <<>> THEN <<>>
    ELSE IF Head(all_posts).section_slug = sec
         THEN <<Head(all_posts)>> \o PostsOfSection(Tail(all_posts), sec)
         ELSE PostsOfSection(Tail(all_posts), sec)

\* the section entries of smart_content, in insertion order
SectionEntries(all_posts, ok) ==
    LET keys == SectionKeys(all_posts, {}) IN
    [k \in DOMAIN keys |->
        [key |-> keys[k],
         posts |-> GetSmartContentForSection(
                       keys[k], PostsOfSection(all_posts, keys[k]), ok)]]

\* all_posts_for_homepage
RECURSIVE Flatten(_)
Flatten(entries) ==
    IF entries = <<>> THEN <<>>
    ELSE Head(entries).posts \o Flatten(Tail(entries))

(***************************************************************************)
(* Calls of the populate functions                                         *)
(***************************************************************************)
SectionNames == <<"ma", "lbo", "reg", "cap", "rumor", "deals">>

SectionIndex(sec) == CHOOSE k \in DOMAIN SectionNames : SectionNames[k] = sec

\* n articles ingested in this cycle for a section, not yet in the window
NewArticles(sec, n) ==
    [k \in 1..n |-> [id |-> 1000 + 100 * SectionIndex(sec) + k,
                     section_slug |-> sec, created_at |-> now, fresh |-> TRUE]]

\* get_smart_content_for_section is called
PopulateSection(sec, n, ok) ==
    /\ fcall' = [called |-> TRUE, op |-> "section", section |-> sec,
                 new |-> NewArticles(sec, n), ok |-> ok]
    /\ fresult' = GetSmartContentForSection(sec, NewArticles(sec, n), ok)
    /\ UNCHANGED <<now, smart>>
    /\ UNCHANGED <<configVars, clientVars, secVars, ingestVars, deliveries, workerVars, histVars>>

\* get_smart_homepage_content is called
PopulateHomepage(n, ok) ==
    /\ fcall' = [called |-> TRUE, op |-> "homepage", section |-> "all",
                 new |-> NewArticles("cap", n), ok |-> ok]
    /\ fresult' = GetSmartHomepageContent(NewArticles("cap", n), ok)
    /\ UNCHANGED <<now, smart>>
    /\ UNCHANGED <<configVars, clientVars, secVars, ingestVars, deliveries, workerVars, histVars>>

\* process_content_with_smart_fallback is called; its last step is the
\* homepage call
ProcessContent(all_posts, ok) ==
    LET entries == SectionEntries(all_posts, ok)
        all_posts_for_homepage == Flatten(entries)
        homepage == GetSmartHomepageContent(all_posts_for_homepage, ok)
    IN /\ smart' = [called |-> TRUE, all_posts |-> all_posts, ok |-> ok,
                    content |-> Append(entries, [key |-> "homepage",
                                                 posts |-> homepage])]
       /\ fcall' = [called |-> TRUE, op |-> "homepage", section |-> "all",
                    new |-> all_posts_for_homepage, ok |-> ok]
       /\ fresult' = homepage
       /\ UNCHANGED now
       /\ UNCHANGED <<configVars, clientVars, secVars, ingestVars, deliveries, workerVars, histVars>>

(***************************************************************************)
(* TwitterClient under a wall clock                                          *)
(***************************************************************************)
MinutesPerHour == 60
MinutesPerDay == HoursPerDay * MinutesPerHour
NoTime == 0 - 1                 \* None

\* datetime.hour and datetime.date() of a time in minutes
HourOf(t) == (t \div MinutesPerHour) % HoursPerDay
DateOf(t) == t \div MinutesPerDay

\* TwitterClient.__init__ at time t
NewClient(t) ==
    [tw |-> NewTwitterClient, hour_start |-> t, day_start |-> t,
     last_post_time |-> NoTime]

\* the client is constructed at 22:00
ClockStart == 22 * MinutesPerHour

\* the instants at which the clock is read: four minutes of each hour
MinuteMarks == {0, 1, 30, 59}
Instants ==
    { ClockStart + h * MinutesPerHour + m : h \in 0..MaxHours, m \in MinuteMarks }

\* time passes
ClockTick(t) ==
    /\ t > wallclock
    /\ wallclock' = t
    /\ UNCHANGED <<client, lastGap>>
    /\ UNCHANGED <<configVars, secVars, ingestVars, deliveries, fallbackVars,
                   workerVars, histVars>>

\* create_tweet at the current time
ClientCreateTweet(beforeReset, code, hdr) ==
    LET newDay == DateOf(wallclock) # DateOf(client.day_start)
        newHour == HourOf(wallclock) # HourOf(client.hour_start)
        r == CreateTweet(client.tw, newDay, newHour, beforeReset, code, hdr)
    IN /\ client' = [tw |-> r.tw,
                     hour_start |-> IF newHour THEN wallclock ELSE client.hour_start,
                     day_start |-> IF newDay THEN wallclock ELSE client.day_start,
                     last_post_time |-> IF r.ok THEN wallclock
                                        ELSE client.last_post_time]
       /\ lastGap' = IF r.ok /\ client.last_post_time # NoTime
                     THEN wallclock - client.last_post_time ELSE lastGap
       /\ UNCHANGED wallclock
       /\ UNCHANGED <<configVars, secVars, ingestVars, deliveries, fallbackVars,
                      workerVars, histVars>>

(***************************************************************************)
(* SECContentProcessor                                                     *)
(***************************************************************************)
\* words of the titles; a capitalised word matches [A-Z][a-z]+
CapWords == {"Acme", "Beta", "Corp"}
IsCap(word) == word \in CapWords

\* re.findall(r'\b[A-Z][a-z]+(?:\s+[A-Z][a-z]+)*\b', title): the maximal runs
\* of capitalised words; cur is the run being read
RECURSIVE CapPhrases(_, _)
CapPhrases(title, cur) ==
    LET done == IF cur = <<>> THEN {} ELSE {cur} IN
    IF title = <<>> THEN done
    ELSE IF IsCap(Head(title))
         THEN CapPhrases(Tail(title), Append(cur, Head(title)))
         ELSE done \cup CapPhrases(Tail(title), <<>>)

\* str.lower of a word
LowerWord(word) ==
    CASE word = "Acme" -> "acme"
      [] word = "Beta" -> "beta"
      [] word = "Corp" -> "corp"
      [] OTHER -> word

\* _generate_slug with a url: the lowered title and the url hash decide the
\* slug
GenerateSlug(title, url) ==
    [title |-> [k \in DOMAIN title |-> LowerWord(title[k])], url_hash |-> url]

\* strftime('%Y-%m-%d') of now - days_back days, compared with created_at:
\* the first hour of that date
CutoffDate(days_back) ==
    ((now - days_back * HoursPerDay) \div HoursPerDay) * HoursPerDay

\* _slug_exists; ok is FALSE when the query raises
SlugExists(slug, ok) ==
    IF ok THEN \E i \in DOMAIN posts : posts[i].article_slug = slug
    ELSE FALSE

\* _has_similar_article_recently; ok is FALSE when the query raises
HasSimilarArticleRecently(title, days_back, ok) ==
    IF ok
    THEN \E i \in DOMAIN posts :
            /\ posts[i].origin_type = "SCRAPED"
            /\ posts[i].created_at >= CutoffDate(days_back)
            /\ Cardinality(CapPhrases(title, <<>>)
                           \cap CapPhrases(posts[i].title, <<>>)) >= 2
    ELSE FALSE

\* _has_recent_company_article that answers a match when the query raises
HasRecentCompanyArticle_FailClosed(company_name, days_back, ok) ==
    IF ok
    THEN \E i \in DOMAIN posts :
            /\ posts[i].origin_type = "SCRAPED"
            /\ posts[i].company_name = company_name
            /\ posts[i].created_at >= CutoffDate(days_back)
    ELSE TRUE

\* _has_recent_company_article; ok is FALSE when the query raises
HasRecentCompanyArticle(company_name, days_back, ok) ==
    IF ok
    THEN \E i \in DOMAIN posts :
            /\ posts[i].origin_type = "SCRAPED"
            /\ posts[i].company_name = company_name
            /\ posts[i].created_at >= CutoffDate(days_back)
    ELSE FALSE

\* a filing with what scraping and rewriting make of it
Filing(accession_number, company_name, title, url) ==
    [accession_number |-> accession_number, company_name |-> company_name,
     title |-> title, url |-> url]

\* _process_filing_data: the post of a filing
FilingPost(f) ==
    [title |-> f.title, source_url |-> f.url, section_slug |-> "ma",
     status |-> "published", origin_type |-> "SCRAPED",
     article_slug |-> GenerateSlug(f.title, f.url),
     company_name |-> f.company_name]

\* _deduplicate_filings_by_accession
RECURSIVE DeduplicateFilings(_, _)
DeduplicateFilings(filings, seen) ==
    IF filings = <<>> THEN <<>>
    ELSE LET f == Head(filings) IN
         IF f.accession_number # "" /\ f.accession_number \notin seen
         THEN <<f>> \o DeduplicateFilings(Tail(filings),
                                          seen \cup {f.accession_number})
         ELSE DeduplicateFilings(Tail(filings), seen)

\* one pass of the loop of process_s4_filings over filing f. The record a
\* says which calls succeed: content (scraping and rewriting return data),
\* exists, company, similar, slug (the store query of that check does not
\* raise), built (_process_filing_data returns a post)
FilingOutcome(f, a) ==
    LET company_name == Strip(Lower(f.company_name)) IN
    IF ~a.content THEN "no_content"
    ELSE IF PostExists(GenerateContentHash(f.url, f.title), a.exists)
    THEN "exists"
    ELSE IF company_name # <<>>
            /\ HasRecentCompanyArticle(company_name, 1, a.company)
    THEN "company"
    ELSE IF HasSimilarArticleRecently(f.title, 1, a.similar) THEN "similar"
    ELSE IF SlugExists(GenerateSlug(f.title, f.url), a.slug) THEN "slug"
    ELSE IF a.built THEN "processed"
    ELSE "not_built"

Answers ==
    [content : BOOLEAN, exists : BOOLEAN, company : BOOLEAN,
     similar : BOOLEAN, slug : BOOLEAN, built : BOOLEAN]

NoFiling == [called |-> FALSE]

NoSec == [running |-> FALSE, todo |-> <<>>, processed |-> <<>>,
          last |-> NoFiling]

\* process_s4_filings is called and the scraper returns filings
StartS4(filings) ==
    /\ ~s4.running
    /\ s4' = [running |-> DeduplicateFilings(filings, {}) # <<>>,
               todo |-> DeduplicateFilings(filings, {}),
               processed |-> <<>>, last |-> NoFiling]
    /\ UNCHANGED <<configVars, clientVars, ingestVars, deliveries,
                   fallbackVars, workerVars, histVars>>

\* one pass of the loop
ProcessFiling(a) ==
    /\ s4.running
    /\ LET f == Head(s4.todo)
           outcome == FilingOutcome(f, a)
       IN s4' = [running |-> Tail(s4.todo) # <<>>,
                  todo |-> Tail(s4.todo),
                  processed |-> IF outcome = "processed"
                                THEN Append(s4.processed, FilingPost(f))
                                ELSE s4.processed,
                  last |-> [called |-> TRUE, filing |-> f, answers |-> a,
                            outcome |-> outcome]]
    /\ UNCHANGED <<configVars, clientVars, ingestVars, deliveries,
                   fallbackVars, workerVars, histVars>>

vars == <<x_enabled, x_keys, revalidate_set, posts, deliveries,
          ipc, itodo, ihash, made, ilast, now, fcall, fresult, smart,
          wpc, wbatch, wpend, wread, wtw,
          passes, hist, storeErr, tweets, wallclock, client, lastGap, s4>>

\* the deployments: everything configured, social posting switched off,
\* social posting switched on without API keys, revalidation not configured
Deployments ==
    { [x |-> TRUE, keys |-> TRUE, reval |-> TRUE],
      [x |-> FALSE, keys |-> TRUE, reval |-> TRUE],
      [x |-> TRUE, keys |-> FALSE, reval |-> TRUE],
      [x |-> TRUE, keys |-> TRUE, reval |-> FALSE] }

InitConfig ==
    \E c \in Deployments :
        /\ x_enabled = c.x
        /\ x_keys = c.keys
        /\ revalidate_set = c.reval

NoCall == [called |-> FALSE]

InitFallback ==
    /\ now = 0
    /\ fcall = NoCall
    /\ fresult = <<>>
    /\ smart = NoCall

InitIngestors ==
    /\ InitFallback
    /\ ipc = [r \in Ingestors |-> "idle"]
    /\ itodo = [r \in Ingestors |-> <<>>]
    /\ ihash = [r \in Ingestors |-> <<>>]
    /\ made = NoCall
    /\ ilast = <<>>
    /\ s4 = NoSec

InitWorkers ==
    /\ wpc = [w \in Workers |-> "idle"]
    /\ wbatch = [w \in Workers |-> <<>>]
    /\ wpend = [w \in Workers |-> NoPend]
    /\ wread = [w \in Workers |-> 0]
    /\ wtw = [w \in Workers |-> NewTwitterClient]
    /\ wallclock = ClockStart
    /\ client = NewClient(ClockStart)
    /\ lastGap = NoTime
    /\ passes = NoPasses
    /\ hist = [i \in DOMAIN deliveries |-> "none"]
    /\ storeErr = FALSE
    /\ tweets = 0

\* what a sink call can meet: the clock (a new day or a new hour since the
\* counters were started, now before the monthly reset) and the answer
SendInputs(channel) ==
    IF channel = "x" THEN
        [newDay : BOOLEAN, newHour : BOOLEAN, beforeReset : BOOLEAN,
         code : TweetCodes, hdr : RemainingHeaders]
    ELSE
        [newDay : {FALSE}, newHour : {FALSE}, beforeReset : {TRUE},
         code : WebCodes, hdr : {-1}]

\* one step of worker process w; store is the set of answers of the store
\* (TRUE: the call succeeds, FALSE: it raises)
WorkerStep(w, store) ==
    \/ \E fetchOk \in store : StartRun(w, fetchOk)
    \/ /\ wpc[w] = "send"
       /\ \E inp \in SendInputs(Head(wbatch[w]).channel) : Send(w, inp)
    \/ \E readOk \in store : ReadAttempts(w, readOk)
    \/ \E writeOk \in store : WriteUpdate(w, writeOk)

(***************************************************************************)
(* SpecWorker: one worker process at a time, the store reachable.          *)
(***************************************************************************)
InitWorker ==
    /\ InitConfig
    /\ posts = <<>>
    /\ InitIngestors
    /\ deliveries \in [1..MaxDeliveries -> RowTemplates]
    /\ InitWorkers

NextWorker == WorkerStep("w1", {TRUE})

SpecWorker == InitWorker /\ [][NextWorker]_vars

\* the worker is started again and again and each run goes to its end
SpecWorkerFair == SpecWorker /\ WF_vars(NextWorker)

(***************************************************************************)
(* SpecWorkerErr: one worker process at a time, store calls may raise.     *)
(***************************************************************************)
QueuedWeb == Row(1, "web", WebPayload(<<"/", SectionPath("ma")>>), "queued")
QueuedX == Row(1, "x", XPayload(SomeText, "queued"), "queued")

ErrTables == { <<QueuedX, QueuedX>>, <<QueuedWeb, QueuedX>> }

InitWorkerErr ==
    /\ InitConfig
    /\ posts = <<>>
    /\ InitIngestors
    /\ deliveries \in ErrTables
    /\ InitWorkers

NextWorkerErr == WorkerStep("w1", BOOLEAN)

SpecWorkerErr == InitWorkerErr /\ [][NextWorkerErr]_vars

(***************************************************************************)
(* SpecOverlap: two worker processes whose runs overlap.                   *)
(***************************************************************************)
OverlapTables == { <<QueuedWeb>>, <<QueuedX>> }

InitOverlap ==
    /\ InitConfig
    /\ posts = <<>>
    /\ InitIngestors
    /\ deliveries \in OverlapTables
    /\ InitWorkers

NextOverlap == \E w \in Workers : WorkerStep(w, {TRUE})

SpecOverlap == InitOverlap /\ [][NextOverlap]_vars

(***************************************************************************)
(* SpecDay: successive worker runs within one calendar day, the store      *)
(* reachable, social posting configured.                                   *)
(***************************************************************************)
DayTables == { <<QueuedX, QueuedX, QueuedX>> }

InitDay ==
    /\ x_enabled = TRUE
    /\ x_keys = TRUE
    /\ revalidate_set = TRUE
    /\ posts = <<>>
    /\ InitIngestors
    /\ deliveries \in DayTables
    /\ InitWorkers

\* what a tweet can meet while the date does not change: hours pass
SameDayInputs ==
    [newDay : {FALSE}, newHour : BOOLEAN, beforeReset : BOOLEAN,
     code : TweetCodes, hdr : RemainingHeaders]

DayStep(w) ==
    \/ StartRun(w, TRUE)
    \/ /\ wpc[w] = "send"
       /\ \E inp \in SameDayInputs : Send(w, inp)
    \/ ReadAttempts(w, TRUE)
    \/ WriteUpdate(w, TRUE)

NextDay == DayStep("w1")

SpecDay == InitDay /\ [][NextDay]_vars

\* one step of ingestion run r storing batches drawn from batches
IngestStep(r, batches) ==
    \/ \E batch \in batches : StartIngest(r, batch)
    \/ \E queryOk \in BOOLEAN : CheckExists(r, queryOk)
    \/ \E insertOk \in BOOLEAN, oks \in [1..2 -> BOOLEAN] :
          InsertPost(r, insertOk, oks)

(***************************************************************************)
(* SpecIngest: two ingestion runs that may overlap.                        *)
(***************************************************************************)
InitIngest ==
    /\ InitConfig
    /\ posts = <<>>
    /\ deliveries = <<>>
    /\ InitIngestors
    /\ InitWorkers

NextIngest == \E r \in Ingestors : IngestStep(r, SeqsUpTo(IngestPosts, MaxBatch))

SpecIngest == InitIngest /\ [][NextIngest]_vars

(***************************************************************************)
(* SpecIngestErr: one ingestion run at a time, the store may fail.         *)
(***************************************************************************)
\* the posts of this spec: the two scraped candidates
ScrapedPosts == { p \in IngestPosts : p.origin_type = "SCRAPED" }

NextIngestErr == IngestStep("i1", SeqsUpTo(ScrapedPosts, MaxBatch))

SpecIngestErr == InitIngest /\ [][NextIngestErr]_vars

(***************************************************************************)
(* SpecFactory: one call of insert_post on an empty store.                 *)
(***************************************************************************)
NextFactory ==
    /\ posts = <<>>
    /\ ilast = <<>>
    /\ IngestStep("i1", { <<p>> : p \in FactoryPosts })

SpecFactory == InitIngest /\ [][NextFactory]_vars

(***************************************************************************)
(* SpecAdmit: ingestion runs one after the other, the store reachable.     *)
(***************************************************************************)
\* one step of ingestion run r when every store call succeeds
AdmitStep(r, batches) ==
    \/ \E batch \in batches : StartIngest(r, batch)
    \/ CheckExists(r, TRUE)
    \/ InsertPost(r, TRUE, [k \in 1..2 |-> TRUE])

NextAdmit == AdmitStep("i1", SeqsUpTo(IngestPosts, MaxBatch))

SpecAdmit == InitIngest /\ [][NextAdmit]_vars

(***************************************************************************)
(* SpecFallback: the populate functions over a store of earlier posts.     *)
(***************************************************************************)
StoredRow(sec, status, created_at) ==
    [PostRow(Post(<<"u">>, <<"t">>, "RSS", 0), <<>>, status, created_at)
        EXCEPT !.section_slug = sec]

Repeat(x, n) == [k \in 1..n |-> x]

\* rows at the edges of the fallback window, outside it, or unpublished
Noise ==
    << StoredRow("ma", "draft", 0 - 5),
       StoredRow("ma", "published", 0 - 1),
       StoredRow("cap", "published", 0 - ExclusionHours),
       StoredRow("cap", "published",
                 0 - fallback_retention_days * HoursPerDay),
       StoredRow("cap", "published",
                 0 - fallback_retention_days * HoursPerDay - 1) >>

\* a store with the given numbers of fallback candidates per section, the
\* newest first
StoreOf(n_ma, n_cap, n_reg, noise) ==
    LET secs == Repeat("ma", n_ma) \o Repeat("cap", n_cap) \o Repeat("reg", n_reg)
    IN [k \in DOMAIN secs |-> StoredRow(secs[k], "published", 0 - 2 - k)]
       \o (IF noise THEN Noise ELSE <<>>)

InitFallbackStore ==
    /\ x_enabled = TRUE
    /\ x_keys = TRUE
    /\ revalidate_set = TRUE
    /\ \E n_ma \in 0..MaxStored, n_cap \in {0, 5, 11}, n_reg \in {0, 30},
          noise \in BOOLEAN : posts = StoreOf(n_ma, n_cap, n_reg, noise)
    /\ deliveries = <<>>
    /\ InitIngestors
    /\ InitWorkers

FallbackCall ==
    \/ \E sec \in {"ma", "cap", "rumor", "deals"}, n \in 0..MaxNew,
          ok \in BOOLEAN : PopulateSection(sec, n, ok)
    \/ \E n \in 0..MaxNew \cup {section_thresholds["all"],
                                 section_thresholds["all"] + 1},
          ok \in BOOLEAN : PopulateHomepage(n, ok)
    \/ \E a, b \in 0..3, ok \in BOOLEAN :
          ProcessContent(NewArticles("ma", a) \o NewArticles("cap", b), ok)

\* one assembly per behaviour: the functions are pure in the store snapshot
NextFallback ==
    /\ ~fcall.called
    /\ FallbackCall

SpecFallback == InitFallbackStore /\ [][NextFallback]_vars

(***************************************************************************)
(* SpecClock: one TwitterClient object across an hour change and midnight.*)
(***************************************************************************)
InitClock ==
    /\ x_enabled = TRUE
    /\ x_keys = TRUE
    /\ revalidate_set = TRUE
    /\ posts = <<>>
    /\ deliveries = <<>>
    /\ InitIngestors
    /\ InitWorkers

NextClock ==
    \/ \E t \in Instants : ClockTick(t)
    \/ \E beforeReset \in BOOLEAN, code \in TweetCodes, hdr \in RemainingHeaders :
          ClientCreateTweet(beforeReset, code, hdr)

SpecClock == InitClock /\ [][NextClock]_vars

(***************************************************************************)
(* SpecSec: process_s4_filings over a store of earlier SEC articles.       *)
(***************************************************************************)
AcmeBuysBeta == <<"Acme", "buys", "Beta">>
BetaBuysAcme == <<"Beta", "buys", "Acme">>
CorpBuysAcme == <<"Corp", "buys", "Acme">>

\* the filings the scraper returns: the second shares the accession number
\* of the first, the third names no company, the fourth has no accession
\* number
SecFilings ==
    { Filing("a1", <<"u">>, AcmeBuysBeta, <<"u">>),
      Filing("a1", <<"U", " ">>, BetaBuysAcme, <<"v">>),
      Filing("a3", <<" ">>, CorpBuysAcme, <<"v">>),
      Filing("", <<"u">>, AcmeBuysBeta, <<"v">>) }

\* the stored article of an earlier filing
StoredFiling(f, origin_type, created_at) ==
    [title |-> f.title, source_url |-> f.url, section_slug |-> "ma",
     status |-> "published", origin_type |-> origin_type,
     article_slug |-> GenerateSlug(f.title, f.url),
     company_name |-> f.company_name,
     content_hash |-> GenerateContentHash(f.url, f.title),
     created_at |-> created_at]

\* stores of at most one article, created today, on the cutoff date or the
\* day before it
SecStores ==
    {<<>>} \cup
    { <<StoredFiling(f, o, t)>> :
        f \in { g \in SecFilings : g.accession_number # "" },
        o \in {"SCRAPED", "RSS"},
        t \in {0 - 1, 0 - HoursPerDay, 0 - HoursPerDay - 1} }

InitSec ==
    /\ x_enabled = TRUE
    /\ x_keys = TRUE
    /\ revalidate_set = TRUE
    /\ posts \in SecStores
    /\ deliveries = <<>>
    /\ InitIngestors
    /\ InitWorkers

NextSec ==
    \/ \E filings \in {<<>>} \cup SeqsUpTo(SecFilings, MaxFilings) :
          StartS4(filings)
    \/ \E a \in Answers : ProcessFiling(a)

SpecSec == InitSec /\ [][NextSec]_vars

(***************************************************************************)
(* Properties of the delivery worker                                       *)
(***************************************************************************)
Idle == \A w \in Workers : wpc[w] = "idle"

PayloadIncomplete(row) ==
    \/ row.channel = "web" /\ row.payload.paths = <<>>
    \/ row.channel = "x" /\ row.payload.text.len = 0

\* every pass of delivery i so far reached the sink and was refused by it
AllFailed(i) == hist[i] = "failed" /\ ~PayloadIncomplete(deliveries[i])

\* C1: under a single sequential worker, a delivery whose sink call fails on
\* every pass is queued with attempts equal to the number of failures
\* through its first 4 failures, is failed with attempts = 5 after the 5th
\* failure, and is not processed a 6th time.
C1_FailedOnFifthFailure ==
    \A i \in DOMAIN deliveries :
        (Idle /\ ~storeErr /\ AllFailed(i)) =>
            /\ passes[i] <= 4 => /\ deliveries[i].status = "queued"
                                 /\ deliveries[i].attempts = passes[i]
            /\ passes[i] = 5 => /\ deliveries[i].status = "failed"
                                /\ deliveries[i].attempts = 5
            /\ passes[i] <= 5

Terminal(status) == status \in {"sent", "failed"}

\* C2: once the stored status of a delivery is sent or failed it never
\* changes again, whatever the interleaving of the worker runs.
C2_TerminalIsFinal ==
    [][\A i \in DOMAIN deliveries :
          Terminal(deliveries[i].status) =>
              deliveries'[i].status = deliveries[i].status]_vars

\* C7: a queued delivery with an incomplete payload is skipped: no request
\* goes to the sink and no step of the worker changes its attempts or its
\* status.
C7_IncompleteSkipped ==
    [][\A i \in DOMAIN deliveries :
          PayloadIncomplete(deliveries[i]) =>
              /\ deliveries'[i].attempts = deliveries[i].attempts
              /\ deliveries'[i].status = deliveries[i].status
              /\ \A w \in Workers :
                    (wpc'[w] = "read" /\ Head(wbatch'[w]).id = i)
                        => ~wpend'[w].sent]_vars

\* C8: a social delivery all of whose passes so far were refused by the
\* client's hourly or daily budget is never failed.
C8_BudgetBlockedNotFailed ==
    \A i \in DOMAIN deliveries :
        (deliveries[i].channel = "x" /\ hist[i] = "blocked")
            => deliveries[i].status # "failed"

\* C13: no step of any worker run, overlapping runs included, lowers the
\* stored attempts of a delivery.
C13_AttemptsNeverDecrease ==
    [][\A i \in DOMAIN deliveries :
          deliveries'[i].attempts >= deliveries[i].attempts]_vars

\* C14: the tweets accepted within one calendar day, over all the worker
\* runs of that day, are at most posts_per_day.
C14_DailyCapAcrossRuns == tweets <= posts_per_day

\* C21: the batch a run fetches holds only deliveries stored as queued, and
\* no step of the run processes or changes a delivery whose stored status
\* is held, sent or failed.
C21_OnlyQueuedTouched ==
    [][/\ \A w \in Workers :
            (wpc[w] = "idle" /\ wbatch'[w] # <<>>) =>
                \A k \in DOMAIN wbatch'[w] :
                    deliveries[wbatch'[w][k].id].status = "queued"
       /\ \A i \in DOMAIN deliveries :
            deliveries[i].status # "queued" =>
                /\ deliveries'[i] = deliveries[i]
                /\ passes'[i] = passes[i]]_vars

\* a run has sent a queued delivery and has left a held one alone
C21_Witness ==
    /\ Idle
    /\ \E i, j \in DOMAIN deliveries :
          /\ deliveries[i].status = "held" /\ passes[i] = 0
          /\ deliveries[j].status = "sent" /\ passes[j] >= 1

\* C22: within one invocation the fetched rows are processed one after the
\* other in fetch order: a pass is made on the first remaining row only,
\* that row does not come again later in the batch, and the batch changes
\* only by a new fetch or by dropping the row just processed.
C22_OncePerInvocation ==
    [][/\ \A i \in DOMAIN deliveries :
            passes'[i] # passes[i] =>
                \E w \in Workers :
                    /\ wpc[w] = "send"
                    /\ Head(wbatch[w]).id = i
                    /\ \A k \in 2..Len(wbatch[w]) : wbatch[w][k].id > i
       /\ \A w \in Workers :
            /\ wbatch'[w] # wbatch[w] =>
                  wpc[w] = "idle" \/ wbatch'[w] = Tail(wbatch[w])
            /\ (wpc[w] # "idle" /\ wpc'[w] = "send") =>
                  wbatch'[w] = Tail(wbatch[w])]_vars

\* the first row of a run failed and is queued again while the run is on
\* its second row
C22_Witness ==
    \E w \in Workers :
        /\ wpc[w] = "read"
        /\ Head(wbatch[w]).id = 2
        /\ deliveries[1].status = "queued"
        /\ deliveries[1].attempts = 1
        /\ passes[1] = 1

\* C28: under one worker that is run again and again with the store
\* reachable, no delivery is processed more than 6 times, and every queued
\* web or x delivery eventually is sent or failed.
C28_TerminalWithinSixPasses ==
    /\ [](\A i \in DOMAIN deliveries : passes[i] <= MaxAttempts + 1)
    /\ \A i \in 1..MaxDeliveries :
          (deliveries[i].status = "queued" /\ deliveries[i].channel \in {"web", "x"})
              ~> Terminal(deliveries[i].status)

\* a delivery was failed by its 6th pass
C28_Witness ==
    \E i \in DOMAIN deliveries :
        /\ deliveries[i].status = "failed"
        /\ passes[i] = MaxAttempts + 1

\* C29: a queued delivery whose channel is neither web nor x is in the
\* batch of every run, and no step changes it, sends it to a sink or calls
\* update_delivery_status for it.
C29_UnknownChannelUntouched ==
    [][\A i \in DOMAIN deliveries :
          (deliveries[i].channel \notin {"web", "x"}
              /\ deliveries[i].status = "queued") =>
            /\ deliveries'[i] = deliveries[i]
            /\ \A w \in Workers :
                  /\ (wpc[w] = "idle" /\ wpc'[w] = "send") =>
                        \E k \in DOMAIN wbatch'[w] : wbatch'[w][k].id = i
                  /\ (wpc[w] = "send" /\ Head(wbatch[w]).id = i) =>
                        /\ wpc'[w] # "read"
                        /\ wpend'[w] = NoPend
                        /\ tweets' = tweets]_vars

\* a later run is on the unknown-channel row again
C29_Witness ==
    \E w \in Workers, j \in DOMAIN deliveries :
        /\ wpc[w] = "send"
        /\ Head(wbatch[w]).channel \notin {"web", "x"}
        /\ deliveries[Head(wbatch[w]).id].attempts = 0
        /\ passes[j] >= 2

\* C30: when the read or the write of update_delivery_status fails, the
\* table is unchanged and the worker goes on to the next fetched row; a
\* delivery whose sink call had succeeded is then still queued.
C30_UpdateErrorSwallowed ==
    [][\A w \in Workers :
          (wpc[w] \in {"read", "write"} /\ ~storeErr /\ storeErr') =>
            /\ deliveries' = deliveries
            /\ wbatch'[w] = Tail(wbatch[w])
            /\ wpc'[w] = IF Tail(wbatch[w]) = <<>> THEN "idle" ELSE "send"
            /\ wpend[w].status = "sent" =>
                  deliveries'[Head(wbatch[w]).id].status = "queued"]_vars

\* the one social delivery of the table was tweeted twice
C30_Witness ==
    /\ storeErr
    /\ Len(deliveries) = 2
    /\ deliveries[1].channel = "web"
    /\ deliveries[2].channel = "x"
    /\ tweets >= 2

(***************************************************************************)
(* Properties of the deduplication gate and of the delivery factory        *)
(***************************************************************************)
\* C3: no two rows of the posts table share a content hash.
C3_HashUnique ==
    \A i, j \in DOMAIN posts :
        i # j => posts[i].content_hash # posts[j].content_hash

Channels(ds) == [k \in DOMAIN ds |-> ds[k].channel]

\* the allow-list test of the claims: slug present, origin type allowed
Qualifies(post) ==
    post.slug_len > 0 /\ post.origin_type \in {"SCRAPED", "PEWIRE"}

\* C9: process_deliveries returns the web delivery followed by one x
\* delivery when the flag is on, the post has an article slug and its origin
\* type is SCRAPED or PEWIRE, and the web delivery alone in every other case.
C9_EligibilityGating ==
    made.called =>
        Channels(made.result) =
            IF x_enabled /\ Qualifies(made.post) THEN <<"web", "x">>
            ELSE <<"web">>

\* a post was fanned out to both channels
C9_Witness ==
    /\ made.called
    /\ Channels(made.result) = <<"web", "x">>
    /\ Len(posts) = 1

\* C10: for a qualifying post the factory returns an x delivery whose status
\* is held when the flag is off and queued when it is on, and every stored
\* x row has the status the factory put in its payload.
C10_HeldWhenFlagOff ==
    /\ (made.called /\ Qualifies(made.post)) =>
          \E k \in DOMAIN made.result :
              /\ made.result[k].channel = "x"
              /\ made.result[k].payload.status =
                    IF x_enabled THEN "queued" ELSE "held"
    /\ \A i \in DOMAIN deliveries :
          deliveries[i].channel = "x" =>
              deliveries[i].status = deliveries[i].payload.status

Range(f) == { f[k] : k \in DOMAIN f }

\* the x payloads process_deliveries returned
XTexts ==
    IF made.called
    THEN { made.result[k].payload.text :
             k \in { j \in DOMAIN made.result : made.result[j].channel = "x" } }
    ELSE {}

\* C15: the text of every social payload the factory builds has at most 280
\* characters.
C15_TextWithinLimit == \A text \in XTexts : text.len <= TweetLimit

\* a text that was longer than the limit and was cut
C15_Witness == \E text \in XTexts : text.cut > 0 /\ text.len = TweetLimit

\* the title and the on-site URL of post fit into one tweet
CoreFits(post) ==
    2 + post.title_len + 2 + SiteUrlLen + post.slug_len <= TweetLimit

\* C16: the text built for a qualifying post whose title and on-site URL fit
\* into the limit holds the title and the complete on-site URL, and never
\* the source URL.
C16_UrlAlwaysComplete ==
    (made.called /\ x_enabled /\ Qualifies(made.post) /\ CoreFits(made.post)) =>
        /\ XTexts # {}
        /\ \A text \in XTexts :
              /\ "title" \in Range(text.parts)
              /\ "site_url" \in Range(text.parts)
              /\ "source_url" \notin Range(text.parts)
              /\ text.cut = 0

\* C20: create_x_delivery on a post with title, summary, source_url and
\* section_slug but without article_slug and origin_type returns a payload.
C20_TestPostGetsPayload ==
    (/\ made.called
     /\ made.post.origin_type = ""
     /\ made.post.slug_len = 0
     /\ made.post.summary_len > 0) =>
        CreateXDelivery(made.post) # None

(***************************************************************************)
(* Properties of the fallback engine                                       *)
(***************************************************************************)
\* the stored posts a call may use as fallbacks
Eligible(op, section) ==
    { i \in DOMAIN posts :
        /\ op = "section" => posts[i].section_slug = section
        /\ InFallbackWindow(posts[i], now) }

TargetOf(op, section) ==
    IF op = "homepage" THEN section_thresholds["all"] ELSE Threshold(section)

\* C4: no post identifier appears twice in the list a populate function
\* returns.
C4_NoDoubleCount ==
    \A i, j \in DOMAIN fresult : i # j => fresult[i].id # fresult[j].id

\* C5: when the store fetch succeeds the returned list has exactly
\* min(threshold, number of new posts + number of eligible fallbacks)
\* elements.
C5_FallbackFloor ==
    (fcall.called /\ fcall.ok) =>
        Len(fresult) =
            Min(TargetOf(fcall.op, fcall.section),
                Len(fcall.new) + Cardinality(Eligible(fcall.op, fcall.section)))

\* a section call that mixed new posts with stored ones up to the threshold
C5_Witness ==
    /\ fcall.called /\ fcall.ok /\ fcall.op = "section"
    /\ Len(fcall.new) > 0
    /\ Len(fcall.new) < Threshold(fcall.section)
    /\ Cardinality(Eligible("section", fcall.section)) > Threshold(fcall.section)
    /\ Len(fresult) = Threshold(fcall.section)

\* C17: when the fallback query fails the populate functions return the
\* new posts they were given, cut to the threshold, in their order.
C17_DegradeToNewPosts ==
    (fcall.called /\ ~fcall.ok) =>
        fresult = Take(fcall.new, TargetOf(fcall.op, fcall.section))

\* a failed fetch left a section below its threshold although the store
\* held fallbacks for it
C17_Witness ==
    /\ fcall.called /\ ~fcall.ok /\ fcall.op = "section"
    /\ Len(fcall.new) > 0
    /\ Len(fcall.new) < Threshold(fcall.section)
    /\ Eligible("section", fcall.section) # {}
    /\ fresult = fcall.new

\* C18: every stored post used as a fallback is published, belongs to the
\* requested section (any section for the homepage) and was created more
\* than 2 hours and less than 7 days before now.
C18_FallbackWindowStrict ==
    fcall.called =>
        \A k \in DOMAIN fresult :
            ~fresult[k].fresh =>
                LET row == posts[fresult[k].id] IN
                /\ row.status = "published"
                /\ fcall.op = "section" => row.section_slug = fcall.section
                /\ row.created_at < now - ExclusionHours
                /\ row.created_at > now - fallback_retention_days * HoursPerDay

\* C23: the result begins with the caller's new posts in the caller's
\* order, cut to the threshold; with at least threshold new posts it is
\* exactly those, otherwise every element after the new posts is a stored
\* post.
C23_NewPostsFirst ==
    fcall.called =>
        LET target == TargetOf(fcall.op, fcall.section)
            n == Len(fcall.new)
        IN IF n >= target THEN fresult = Take(fcall.new, target)
           ELSE /\ Len(fresult) >= n
                /\ SubSeq(fresult, 1, n) = fcall.new
                /\ \A k \in (n + 1)..Len(fresult) :
                      /\ ~fresult[k].fresh
                      /\ fresult[k].id \in DOMAIN posts

\* a homepage call that mixed new posts with stored ones
C23_Witness ==
    /\ fcall.called /\ fcall.op = "homepage"
    /\ Len(fcall.new) > 0
    /\ Len(fresult) > Len(fcall.new)
    /\ \A k \in DOMAIN fcall.new : fcall.new[k].fresh

\* the fallback posts of the result: what follows the new posts
FallbackPart ==
    IF fcall.called /\ Len(fresult) > Len(fcall.new)
    THEN SubSeq(fresult, Len(fcall.new) + 1, Len(fresult))
    ELSE <<>>

\* C24: the fallback posts of a result are in descending order of creation
\* time, and no eligible post that is left out is newer than one of them.
C24_MostRecentFirst ==
    (fcall.called /\ fcall.ok) =>
        LET F == FallbackPart
            used == { F[k].id : k \in DOMAIN F }
        IN /\ \A k \in 1..(Len(F) - 1) : F[k].created_at >= F[k + 1].created_at
           /\ \A e \in Eligible(fcall.op, fcall.section) \ used :
                 \A k \in DOMAIN F : posts[e].created_at <= F[k].created_at

\* a section with more than 10 eligible posts was filled from the newest
C24_Witness ==
    /\ fcall.called /\ fcall.ok /\ fcall.op = "section"
    /\ Cardinality(Eligible("section", fcall.section)) > SectionLimit
    /\ Len(FallbackPart) >= 2
    /\ Len(FallbackPart) < Cardinality(Eligible("section", fcall.section))

ConfiguredSections == DOMAIN section_thresholds \ {"all"}

EntryLen(content, key) ==
    IF \E k \in DOMAIN content : content[k].key = key
    THEN Len(content[CHOOSE k \in DOMAIN content : content[k].key = key].posts)
    ELSE 0

\* C6: after process_content_with_smart_fallback every configured section,
\* and the homepage, holds at least its threshold whenever the store has
\* that many eligible fallbacks.
C6_NeverBelowThreshold ==
    (smart.called /\ smart.ok) =>
        /\ \A sec \in ConfiguredSections :
              Cardinality(Eligible("section", sec)) >= Threshold(sec)
                  => EntryLen(smart.content, sec) >= Threshold(sec)
        /\ Cardinality(Eligible("homepage", "all")) >= section_thresholds["all"]
              => EntryLen(smart.content, "homepage") >= section_thresholds["all"]

(***************************************************************************)
(* Properties of insert_post                                               *)
(***************************************************************************)
HashOf(post) == GenerateContentHash(post.source_url, post.title)

\* the stored rows that carry the fingerprint of post
StoredAs(post) == { i \in DOMAIN posts : posts[i].content_hash = HashOf(post) }

\* C11: with the store reachable, insert_post returns None only for a post
\* whose fingerprint is stored and otherwise the id of the row it inserted;
\* when it is called twice in sequence on one post the second call returns
\* None and exactly one row is stored for the post.
C11_SecondInsertRejected ==
    /\ \A k \in DOMAIN ilast :
          IF ilast[k].ret = 0 THEN StoredAs(ilast[k].post) # {}
          ELSE ilast[k].ret \in StoredAs(ilast[k].post)
    /\ (Len(ilast) = 2 /\ ilast[1].post = ilast[2].post) =>
          /\ ilast[2].ret = 0
          /\ Cardinality(StoredAs(ilast[2].post)) = 1

\* a post was admitted and its immediate re-submission was rejected
C11_Witness ==
    /\ Len(ilast) = 2
    /\ ilast[1].post = ilast[2].post
    /\ ilast[1].ret # 0
    /\ ilast[2].ret = 0

\* a text without its letter case and its leading and trailing whitespace
Normal(str) == Strip(Lower(str))

\* p and q differ in letter case and in leading or trailing whitespace of
\* source_url and title only
Variant(p, q) ==
    /\ Normal(p.source_url) = Normal(q.source_url)
    /\ Normal(p.title) = Normal(q.title)

\* C12: when a candidate is admitted and the next candidate differs from it
\* only in letter case and in leading or trailing whitespace of its
\* source_url and title, the two have the same fingerprint and the second
\* is rejected.
C12_VariantRejected ==
    (/\ Len(ilast) = 2
     /\ Variant(ilast[1].post, ilast[2].post)
     /\ ilast[1].ret # 0) =>
        /\ HashOf(ilast[1].post) = HashOf(ilast[2].post)
        /\ ilast[2].ret = 0

\* C27: when insert_post stores nothing for a post (duplicate, failed
\* insert or unreachable store), no delivery row is created, the loop of
\* store_posts goes on with the rest of the batch, and every delivery row
\* belongs to a stored post.
C27_FailureStopsOneItem ==
    [][/\ \A r \in Ingestors :
            (/\ ipc[r] \in {"check", "insert"}
             /\ Len(posts') = Len(posts)
             /\ ipc'[r] # "insert") =>
                /\ deliveries' = deliveries
                /\ itodo'[r] = Tail(itodo[r])
                /\ ipc'[r] = IF Tail(itodo[r]) = <<>> THEN "idle" ELSE "check"
       /\ \A k \in DOMAIN deliveries' :
            deliveries'[k].post_id \in DOMAIN posts']_vars

\* the first post of a batch was not stored and the run is at the second
C27_Witness ==
    /\ ipc["i1"] = "check" /\ Len(itodo["i1"]) = 1
    /\ Len(ilast) = 1 /\ ilast[1].ret = 0
    /\ posts = <<>> /\ deliveries = <<>>

\* C26: no two tweets accepted from one TwitterClient object are less than
\* 60 minutes apart.
C26_RollingHourlyCap == lastGap = NoTime \/ lastGap >= MinutesPerHour

\* C25: when the store query of the company-recency check, of the
\* similar-title check or of the slug check raises, that check answers no
\* match and the filing is not skipped by it; a filing all of whose checks
\* raise is processed.
C25_PrefiltersFailOpen ==
    s4.last.called =>
        LET a == s4.last.answers
            f == s4.last.filing
            o == s4.last.outcome
            company_name == Strip(Lower(f.company_name))
        IN /\ ~a.company =>
                 /\ ~HasRecentCompanyArticle(company_name, 1, a.company)
                 /\ o # "company"
           /\ ~a.similar =>
                 /\ ~HasSimilarArticleRecently(f.title, 1, a.similar)
                 /\ o # "similar"
           /\ ~a.slug =>
                 /\ ~SlugExists(GenerateSlug(f.title, f.url), a.slug)
                 /\ o # "slug"
           /\ (/\ a.content /\ a.built
               /\ ~a.company /\ ~a.similar /\ ~a.slug
               /\ ~PostExists(GenerateContentHash(f.url, f.title), a.exists)) =>
                 /\ o = "processed"
                 /\ s4.processed # <<>>
                 /\ s4.processed[Len(s4.processed)] = FilingPost(f)

\* a filing that every working check would have skipped went through
\* because all three queries raised
C25_Witness ==
    /\ s4.last.called
    /\ ~s4.last.answers.company /\ ~s4.last.answers.similar
    /\ ~s4.last.answers.slug
    /\ s4.last.outcome = "processed"
    /\ HasRecentCompanyArticle(Strip(Lower(s4.last.filing.company_name)), 1, TRUE)
    /\ HasSimilarArticleRecently(s4.last.filing.title, 1, TRUE)
    /\ SlugExists(GenerateSlug(s4.last.filing.title, s4.last.filing.url), TRUE)

\* the delivery rows of stored post i for a channel
DeliveriesOf(i, channel) ==
    { d \in DOMAIN deliveries :
        deliveries[d].post_id = i /\ deliveries[d].channel = channel }

====
